---- MODULE Spec2Model ----
(***************************************************************************)
(* A model of the lis3dh driver: the register and bit-field map with its   *)
(* entitlements (src/registers*.rs), the configuration type-check and the  *)
(* byte renderer (src/config.rs), the SPI bus protocol (src/bus/spi.rs),   *)
(* the sample decoder and the device controller (src/lib.rs).              *)
(*                                                                         *)
(* Type-states are modelled by their names (strings). A configuration the  *)
(* Rust compiler refuses (an unsatisfied `Entitled` bound) is modelled as  *)
(* a candidate that TypeCheck rejects: nothing is rendered and no bus call *)
(* is made for it.                                                         *)
(*                                                                         *)
(* Four specifications share the variables: Spec (Lis3dh::new on every     *)
(* candidate configuration), SpecBus (one bus call against a device),      *)
(* SpecDecode (the sample decoder and the gravity coefficient) and         *)
(* SpecDriver (the calls made on a handle, one after the other).           *)
(***************************************************************************)
EXTENDS Integers, Sequences, FiniteSets, TLC

VARIABLES
    pc,        \* position of the driver / of the scenario being run
    cfg,       \* the candidate configuration (one type-state per field)
    bytes,     \* Some(ConfigAsBytes) rendered by Lis3dh::new, or None
    regs,      \* the device's register file, address -> byte
    txlog,     \* the bus calls issued so far by the call being run, in order
    inflight,  \* the SPI transactions handed to the transport and not completed
    result,    \* what the last completed call returned
    regsSeq,   \* a second device, driven by single writes only
    seqIdx,    \* number of single writes already applied to regsSeq
    sample,    \* the decoder's input and output
    op,        \* the driver or bus call being run (the last one, once it returned)
    transport, \* the transport transactions completed for that call, with outcome
    rawWritten \* a raw register write has been issued on the handle

vars == <<pc, cfg, bytes, regs, txlog, inflight, result, regsSeq, seqIdx, sample,
          op, transport, rawWritten>>

-----------------------------------------------------------------------------
(* u8 arithmetic                                                           *)

Pow2(n) == 2 ^ n

\* bit i of x
Bit(x, i) == (x \div Pow2(i)) % 2

\* a | b on u8
BitOr(a, b) ==
    LET f[i \in 0..8] ==
            IF i = 8 THEN 0
            ELSE (IF Bit(a, i) = 1 \/ Bit(b, i) = 1 THEN Pow2(i) ELSE 0) + f[i + 1]
    IN  f[0]

\* a & b on u8
BitAnd(a, b) ==
    LET f[i \in 0..8] ==
            IF i = 8 THEN 0
            ELSE (IF Bit(a, i) = 1 /\ Bit(b, i) = 1 THEN Pow2(i) ELSE 0) + f[i + 1]
    IN  f[0]

\* (x as u8) << n : the bits shifted past bit 7 are lost
Shl8(x, n) == (x * Pow2(n)) % 256

-----------------------------------------------------------------------------
(* Register addresses (src/registers.rs)                                   *)

CtrlReg0 == 30
TempCfgReg == 31
CtrlReg1 == 32
CtrlReg2 == 33
CtrlReg3 == 34
CtrlReg4 == 35
CtrlReg5 == 36
StatusRegAux == 7
WhoAmI == 15
OutXL == 40
OutXH == 41

ReadWriteRegisterAddress ==
    {30, 31, 32, 33, 34, 35, 36, 37, 46, 48, 50, 51, 52, 54, 55, 56, 58, 59,
     60, 61, 62, 63}

ReadOnlyRegisterAddress ==
    {7, 8, 9, 10, 11, 12, 13, 15, 38, 39, 40, 41, 42, 43, 44, 45, 47, 49, 53, 57}

\* RegisterAddress: ReadOnly(a) or ReadWrite(a)
RegisterAddress ==
    { <<"ReadOnly", a>> : a \in ReadOnlyRegisterAddress } \cup
    { <<"ReadWrite", a>> : a \in ReadWriteRegisterAddress }

byte_address(ra) == ra[2]

\* the register table: <<name, type, address>> of every register it lists
RegisterTable ==
    { <<"STATUS_REG_AUX", "r", 7>>, <<"OUT_ADC1_L", "r", 8>>, <<"OUT_ADC1_H", "r", 9>>,
      <<"OUT_ADC2_L", "r", 10>>, <<"OUT_ADC2_H", "r", 11>>, <<"OUT_ADC3_L", "r", 12>>,
      <<"OUT_ADC3_H", "r", 13>>, <<"WHO_AM_I", "r", 15>>,
      <<"CTRL_REG0", "rw", 30>>, <<"TEMP_CFG_REG", "rw", 31>>, <<"CTRL_REG1", "rw", 32>>,
      <<"CTRL_REG2", "rw", 33>>, <<"CTRL_REG3", "rw", 34>>, <<"CTRL_REG4", "rw", 35>>,
      <<"CTRL_REG5", "rw", 36>>, <<"CTRL_REG6", "rw", 37>>, <<"REFERENCE", "rw", 38>>,
      <<"STATUS_REG", "r", 39>>, <<"OUT_X_L", "r", 40>>, <<"OUT_X_H", "r", 41>>,
      <<"OUT_Y_L", "r", 42>>, <<"OUT_Y_H", "r", 43>>, <<"OUT_Z_L", "r", 44>>,
      <<"OUT_Z_H", "r", 45>>, <<"FIFO_CTRL_REG", "rw", 46>>, <<"FIFO_SRC_REG", "r", 47>>,
      <<"INT1_CFG", "rw", 48>>, <<"INT1_SRC", "r", 49>>, <<"INT1_THS", "rw", 50>>,
      <<"INT1_DURATION", "rw", 51>>, <<"INT2_CFG", "rw", 52>>, <<"INT2_SRC", "r", 53>>,
      <<"INT2_THS", "rw", 54>>, <<"INT2_DURATION", "rw", 55>>, <<"CLICK_CFG", "rw", 56>>,
      <<"CLICK_SRC", "r", 57>>, <<"CLICK_THS", "rw", 58>>, <<"TIME_LIMIT", "rw", 59>>,
      <<"TIME_LATENCY", "rw", 60>>, <<"TIME_WINDOW", "rw", 61>>, <<"ACT_THS", "rw", 62>>,
      <<"ACT_DUR", "rw", 63>> }

-----------------------------------------------------------------------------
(* CTRL_REG1 (src/registers/ctrl_reg1.rs)                                  *)

odr_WIDTH == 4
odr_OFFSET == 4

\* enum odr::Variant with its discriminants
odr_Variant ==
    [PowerDown |-> 0, F1Hz |-> 1, F10Hz |-> 2, F25Hz |-> 3, F50Hz |-> 4,
     F100Hz |-> 5, F200Hz |-> 6, F400Hz |-> 7, F1600Hz |-> 8, F1344Hz |-> 9]

\* Variant::F5376HZ is the constant Variant::F1344Hz
odr_F5376HZ == "F1344Hz"

\* the type-states of odr, each with its State::VARIANT
odr_State ==
    [PowerDown |-> "PowerDown", F1Hz |-> "F1Hz", F10Hz |-> "F10Hz",
     F25Hz |-> "F25Hz", F50Hz |-> "F50Hz", F100Hz |-> "F100Hz",
     F200Hz |-> "F200Hz", F400Hz |-> "F400Hz", F1600Hz |-> "F1600Hz",
     F1344Hz |-> "F1344Hz", F5376Hz |-> odr_F5376HZ]

lp_en_WIDTH == 1
lp_en_OFFSET == 3

lp_en_Variant == [NormalPowerMode |-> 0, LowPowerMode |-> 1]

lp_en_State == [NormalPowerMode |-> "NormalPowerMode", LowPowerMode |-> "LowPowerMode"]

axis_enable_WIDTH == 3
axis_enable_OFFSET == 0

axis_enable_Variant ==
    [XYZDisabled |-> 0, XEnabled |-> 1, YEnabled |-> 2, XYEnabled |-> 3,
     ZEnabled |-> 4, XZEnabled |-> 5, YZEnabled |-> 6, XYZEnabled |-> 7]

axis_enable_State ==
    [XYZDisabled |-> "XYZDisabled", XEnabled |-> "XEnabled", YEnabled |-> "YEnabled",
     XYEnabled |-> "XYEnabled", ZEnabled |-> "ZEnabled", XZEnabled |-> "XZEnabled",
     YZEnabled |-> "YZEnabled", XYZEnabled |-> "XYZEnabled"]

\* a mis-entitlement: F1600Hz allowed with any power mode
odr_Entitled_anyF1600(o, lp) ==
    \/ o \in {"PowerDown", "F1Hz", "F10Hz", "F25Hz", "F50Hz", "F100Hz", "F200Hz",
              "F400Hz", "F1600Hz"}
    \/ o = "F1344Hz" /\ lp = "NormalPowerMode"
    \/ o = "F5376Hz" /\ lp = "LowPowerMode"

\* a mis-entitlement: F5376Hz allowed with any power mode
odr_Entitled_anyF5376(o, lp) ==
    \/ o \in {"PowerDown", "F1Hz", "F10Hz", "F25Hz", "F50Hz", "F100Hz", "F200Hz",
              "F400Hz", "F5376Hz"}
    \/ o = "F1600Hz" /\ lp = "LowPowerMode"
    \/ o = "F1344Hz" /\ lp = "NormalPowerMode"

\* impl Entitled<lp> for odr::o
odr_Entitled(o, lp) ==
    \/ o \in {"PowerDown", "F1Hz", "F10Hz", "F25Hz", "F50Hz", "F100Hz", "F200Hz",
              "F400Hz"}
    \/ o = "F1600Hz" /\ lp = "LowPowerMode"
    \/ o = "F1344Hz" /\ lp = "NormalPowerMode"
    \/ o = "F5376Hz" /\ lp = "LowPowerMode"

\* a renderer that places odr one bit too low
ctrl_reg1_render_odr_off3(Odr, LpEn, AxisEnable) ==
    BitOr(BitOr(Shl8(odr_Variant[odr_State[Odr]], 3),
                Shl8(lp_en_Variant[lp_en_State[LpEn]], lp_en_OFFSET)),
          Shl8(axis_enable_Variant[axis_enable_State[AxisEnable]], axis_enable_OFFSET))

\* define_state_renderer!(odr, lp_en, axis_enable)
ctrl_reg1_render_hardware_state(Odr, LpEn, AxisEnable) ==
    BitOr(BitOr(Shl8(odr_Variant[odr_State[Odr]], odr_OFFSET),
                Shl8(lp_en_Variant[lp_en_State[LpEn]], lp_en_OFFSET)),
          Shl8(axis_enable_Variant[axis_enable_State[AxisEnable]], axis_enable_OFFSET))

-----------------------------------------------------------------------------
(* CTRL_REG4 (src/registers/ctrl_reg4.rs)                                  *)

bdu_WIDTH == 1
bdu_OFFSET == 7
bdu_Variant == [ContinuousDataUpdate |-> 0, BlockDataUpdate |-> 1]
bdu_Default == "ContinuousDataUpdate"

ble_WIDTH == 1
ble_OFFSET == 6
ble_Variant == [LittleEndian |-> 0, BigEndian |-> 1]
ble_Default_BigEndian == "BigEndian"
ble_Default == "LittleEndian"

fs_WIDTH == 2
fs_OFFSET == 4
fs_Variant == [S2G |-> 0, S4G |-> 1, S8G |-> 2, S16G |-> 3]
fs_State == [S2G |-> "S2G", S4G |-> "S4G", S8G |-> "S8G", S16G |-> "S16G"]

hr_WIDTH == 1
hr_OFFSET == 3
hr_Variant == [NormalResolution |-> 0, HighResolution |-> 1]
hr_State == [NormalResolution |-> "NormalResolution", HighResolution |-> "HighResolution"]

st_WIDTH == 2
st_OFFSET == 1
st_Variant == [NormalMode |-> 0, SelfTest0 |-> 1, SelfTest1 |-> 2]
st_Default == "NormalMode"

sim_WIDTH == 1
sim_OFFSET == 0
sim_Variant == [Spi4Wire |-> 0, Spi3Wire |-> 1]
sim_Default == "Spi4Wire"

\* the entitlement as the hr field's documentation words it
hr_Entitled_LowPowerMode(h, lp) ==
    \/ h = "NormalResolution"
    \/ h = "HighResolution" /\ lp = "LowPowerMode"

\* impl Entitled<lp> for hr::h
hr_Entitled(h, lp) ==
    \/ h = "NormalResolution"
    \/ h = "HighResolution" /\ lp = "NormalPowerMode"

\* define_state_renderer!(bdu, ble, fs, hr, st, sim)
ctrl_reg4_render_hardware_state(Bdu, Ble, Fs, Hr, St, Sim) ==
    BitOr(BitOr(BitOr(BitOr(BitOr(Shl8(bdu_Variant[Bdu], bdu_OFFSET),
                                  Shl8(ble_Variant[Ble], ble_OFFSET)),
                            Shl8(fs_Variant[fs_State[Fs]], fs_OFFSET)),
                      Shl8(hr_Variant[hr_State[Hr]], hr_OFFSET)),
                Shl8(st_Variant[St], st_OFFSET)),
          Shl8(sim_Variant[Sim], sim_OFFSET))

-----------------------------------------------------------------------------
(* CTRL_REG0 (src/registers/ctrl_reg0.rs), TEMP_CFG_REG (temp_cfg_reg.rs)  *)

sdo_pu_disc_WIDTH == 1
sdo_pu_disc_OFFSET == 7
sdo_pu_disc_Variant == [SdoPulledUp |-> 0, SdoFloating |-> 1]
sdo_pu_disc_Default == "SdoPulledUp"

\* a width that takes in bit 7 as well
must_set_bits_WIDTH_byte == sdo_pu_disc_OFFSET + 1

must_set_bits_WIDTH == 7
must_set_bits_OFFSET == 0
must_set_bits_Variant == [MustSet |-> 16]
must_set_bits_Default == "MustSet"

\* define_state_renderer!(sdo_pu_disc, must_set_bits)
ctrl_reg0_render_hardware_state(SdoPuDisc, MustSetBits) ==
    BitOr(Shl8(sdo_pu_disc_Variant[SdoPuDisc], sdo_pu_disc_OFFSET),
          Shl8(must_set_bits_Variant[MustSetBits], must_set_bits_OFFSET))

adc_en_WIDTH == 1
adc_en_OFFSET == 7
adc_en_Variant == [AdcDisabled |-> 0, AdcEnabled |-> 1]
adc_en_Default == "AdcDisabled"

temp_en_WIDTH == 1
temp_en_OFFSET == 6
temp_en_Variant == [TempDisabled |-> 0, TempEnabled |-> 1]
temp_en_Default == "TempDisabled"

\* define_state_renderer!(adc_en, temp_en)
temp_cfg_reg_render_hardware_state(AdcEn, TempEn) ==
    BitOr(Shl8(adc_en_Variant[AdcEn], adc_en_OFFSET),
          Shl8(temp_en_Variant[TempEn], temp_en_OFFSET))

-----------------------------------------------------------------------------
(* Configuration (src/config.rs)                                           *)

\* every way to fill Config<Odr, LpEn, AxisEnable, Fs, Hr> with type-states
Config ==
    [odr : DOMAIN odr_State, lp_en : DOMAIN lp_en_State,
     axis_enable : DOMAIN axis_enable_State, fs : DOMAIN fs_State,
     hr : DOMAIN hr_State]

\* the where-clause of Config: Odr: Entitled<LpEn>, Hr: Entitled<LpEn>
ValidLis3dhConfig(c) ==
    /\ odr_Entitled(c.odr, c.lp_en)
    /\ hr_Entitled(c.hr, c.lp_en)

\* ValidLis3dhConfig::render_as_bytes
render_as_bytes(c) ==
    [ctrl_reg0 |-> ctrl_reg0_render_hardware_state(sdo_pu_disc_Default,
                                                   must_set_bits_Default),
     temp_cfg_reg |-> temp_cfg_reg_render_hardware_state(adc_en_Default,
                                                         temp_en_Default),
     ctrl_reg1 |-> ctrl_reg1_render_hardware_state(c.odr, c.lp_en, c.axis_enable),
     ctrl_reg4 |-> ctrl_reg4_render_hardware_state(bdu_Default, ble_Default, c.fs,
                                                   c.hr, st_Default, sim_Default)]

-----------------------------------------------------------------------------
(* Properties (src/properties.rs)                                          *)

\* resolution::Variant
R8Bit == 8
R10Bit == 10
R12Bit == 12

\* the match arm that is unreachable!(): no resolution exists
resolution_unreachable == 0

\* the table with the low-power and normal rows exchanged
Resolution_swapped(LpEn, Hr) ==
    LET lp == lp_en_State[LpEn]
        h  == hr_State[Hr]
    IN  CASE lp = "LowPowerMode"    /\ h = "NormalResolution" -> R10Bit
          [] lp = "NormalPowerMode" /\ h = "NormalResolution" -> R8Bit
          [] lp = "NormalPowerMode" /\ h = "HighResolution"   -> R12Bit
          [] lp = "LowPowerMode"    /\ h = "HighResolution"   -> resolution_unreachable

\* <Resolution<LpEn, Hr> as Property>::VARIANT
Resolution(LpEn, Hr) ==
    LET lp == lp_en_State[LpEn]
        h  == hr_State[Hr]
    IN  CASE lp = "LowPowerMode"    /\ h = "NormalResolution" -> R8Bit
          [] lp = "NormalPowerMode" /\ h = "NormalResolution" -> R10Bit
          [] lp = "NormalPowerMode" /\ h = "HighResolution"   -> R12Bit
          [] lp = "LowPowerMode"    /\ h = "HighResolution"   -> resolution_unreachable

-----------------------------------------------------------------------------
(* Option values: <<>> is None, <<x>> is Some(x)                           *)

None == <<>>
Some(x) == <<x>>

-----------------------------------------------------------------------------
(* SPI bus (src/bus/spi.rs)                                                *)

\* enum Lis3dhOperation
SingleWrite == 0
SingleRead == 128
MultipleWrite == 64
MultipleRead == 192

\* embedded_hal::spi::Operation::Write(buf) and ::Read(buf of len bytes)
SpiWrite(buf) == [kind |-> "Write", buf |-> buf, len |-> Len(buf)]
SpiRead(len) == [kind |-> "Read", buf |-> <<>>, len |-> len]

\* a multi-byte write announced as a single write: no auto-increment bit
spi_write_multiple_single_op(start_address, values) ==
    [op |-> "write_multiple", addr |-> start_address, values |-> values, len |-> 0,
     spi |-> <<SpiWrite(<<BitOr(SingleWrite, start_address)>>), SpiWrite(values)>>]

\* a read whose control byte carries the multi-write code
spi_read_wrong_op(register_address) ==
    [op |-> "read", addr |-> byte_address(register_address), values |-> <<>>, len |-> 1,
     spi |-> <<SpiWrite(<<BitOr(MultipleWrite, byte_address(register_address))>>),
               SpiRead(1)>>]

\* Lis3dhAsyncSpi::write: the bus call and the one SPI transaction it makes
spi_write(register_address, value) ==
    [op |-> "write", addr |-> register_address, values |-> <<value>>, len |-> 0,
     spi |-> <<SpiWrite(<<BitOr(SingleWrite, register_address), value>>)>>]

\* Lis3dhAsyncSpi::write_multiple
spi_write_multiple(start_address, values) ==
    [op |-> "write_multiple", addr |-> start_address, values |-> values, len |-> 0,
     spi |-> <<SpiWrite(<<BitOr(MultipleWrite, start_address)>>), SpiWrite(values)>>]

\* Lis3dhAsyncSpi::read
spi_read(register_address) ==
    [op |-> "read", addr |-> byte_address(register_address), values |-> <<>>, len |-> 1,
     spi |-> <<SpiWrite(<<BitOr(SingleRead, byte_address(register_address))>>),
               SpiRead(1)>>]

\* Lis3dhAsyncSpi::read_multiple, result being a buffer of len bytes
spi_read_multiple(start_address, len) ==
    [op |-> "read_multiple", addr |-> byte_address(start_address), values |-> <<>>,
     len |-> len,
     spi |-> <<SpiWrite(<<BitOr(MultipleRead, byte_address(start_address))>>),
               SpiRead(len)>>]

-----------------------------------------------------------------------------
(* The device at the other end of the bus. Its register file follows the   *)
(* register table of src/registers.rs; it decodes the control byte as      *)
(* Lis3dhOperation lays it out: bit 7 read, bit 6 auto-increment, bits 5-0 *)
(* the address.                                                            *)

Addresses == 0..63

\* the Default column of the register table; N/A is taken as 0
ResetRegs ==
    [a \in Addresses |->
        CASE a = WhoAmI   -> 51
          [] a = CtrlReg0 -> 16
          [] a = CtrlReg1 -> 7
          [] OTHER        -> 0]

\* all bytes a transaction clocks out to the device, in order
RECURSIVE SpiWritten(_)
SpiWritten(spi) ==
    IF spi = <<>> THEN <<>>
    ELSE (IF Head(spi).kind = "Write" THEN Head(spi).buf ELSE <<>>) \o SpiWritten(Tail(spi))

\* number of bytes a transaction clocks in from the device
RECURSIVE SpiReadLen(_)
SpiReadLen(spi) ==
    IF spi = <<>> THEN 0
    ELSE (IF Head(spi).kind = "Read" THEN Head(spi).len ELSE 0) + SpiReadLen(Tail(spi))

\* data bytes stored from address a on, the address advancing when ms = 1
RECURSIVE DeviceStore(_, _, _, _)
DeviceStore(r, a, ms, data) ==
    IF data = <<>> THEN r
    ELSE DeviceStore([r EXCEPT ![a] = Head(data)], (a + ms) % 64, ms, Tail(data))

\* the register file after the device has received a transaction
DeviceApply(r, spi) ==
    LET w   == SpiWritten(spi)
        ctl == w[1]
    IN  IF w = <<>> \/ Bit(ctl, 7) = 1 THEN r
        ELSE DeviceStore(r, ctl % 64, Bit(ctl, 6), Tail(w))

\* the bytes the device returns to a read transaction
DeviceReply(r, spi) ==
    LET w   == SpiWritten(spi)
        ctl == w[1]
    IN  IF w = <<>> \/ Bit(ctl, 7) = 0 THEN <<>>
        ELSE [i \in 1..SpiReadLen(spi) |-> r[((ctl % 64) + Bit(ctl, 6) * (i - 1)) % 64]]

-----------------------------------------------------------------------------
(* Sample decoding (src/lib.rs)                                            *)

\* i16::from_le_bytes([lower_byte, upper_byte])
i16_from_le_bytes(lower_byte, upper_byte) ==
    LET u == lower_byte + 256 * upper_byte
    IN  IF u >= 32768 THEN u - 65536 ELSE u

\* a logical shift: the vacated bits are filled with zeros
i16_shr_logical(x, s) ==
    LET u == IF x < 0 THEN x + 65536 ELSE x
    IN  u \div Pow2(s)

\* x >> s on i16: the vacated bits are filled with the sign bit
i16_shr(x, s) ==
    LET u    == IF x < 0 THEN x + 65536 ELSE x
        fill == IF Bit(u, 15) = 1 THEN (Pow2(s) - 1) * Pow2(16 - s) ELSE 0
        v    == (u \div Pow2(s)) + fill
    IN  IF v >= 32768 THEN v - 65536 ELSE v

\* Lis3dh::<Bus, Config>::accel_raw_into_i16
accel_raw_into_i16(c, lower_byte, upper_byte) ==
    LET accel_as_i16 == i16_from_le_bytes(lower_byte, upper_byte)
    IN  i16_shr(accel_as_i16, 16 - Resolution(c.lp_en, c.hr))
-----------------------------------------------------------------------------
(* Gravity coefficient (src/properties.rs, src/acceleration_data_structs.rs) *)
(* The f32 constants are kept as integers, in thousandths of g per digit.  *)

\* a table whose S16G row goes on doubling the S8G row
GravityCoefficient_doubling(Fs, Res) ==
    LET row == CASE Fs = "S2G" -> 1 [] Fs = "S4G" -> 2 [] Fs = "S8G" -> 4
                 [] Fs = "S16G" -> 8
        col == CASE Res = R8Bit -> 16 [] Res = R10Bit -> 4 [] Res = R12Bit -> 1
                 [] OTHER -> 0
    IN  row * col

\* GravityCoefficient<Fs, Resolution>::GRAVITY_COEFFICIENT, times 1000
GravityCoefficient(Fs, Res) ==
    CASE Fs = "S2G"  /\ Res = R8Bit  -> 16
      [] Fs = "S2G"  /\ Res = R10Bit -> 4
      [] Fs = "S2G"  /\ Res = R12Bit -> 1
      [] Fs = "S4G"  /\ Res = R8Bit  -> 32
      [] Fs = "S4G"  /\ Res = R10Bit -> 8
      [] Fs = "S4G"  /\ Res = R12Bit -> 2
      [] Fs = "S8G"  /\ Res = R8Bit  -> 64
      [] Fs = "S8G"  /\ Res = R10Bit -> 16
      [] Fs = "S8G"  /\ Res = R12Bit -> 4
      [] Fs = "S16G" /\ Res = R8Bit  -> 192
      [] Fs = "S16G" /\ Res = R10Bit -> 48
      [] Fs = "S16G" /\ Res = R12Bit -> 12
      [] OTHER -> 0

\* type GravityCoefficient of the ValidLis3dhConfig impl
Config_GravityCoefficient(c) == GravityCoefficient(c.fs, Resolution(c.lp_en, c.hr))

\* Acceleration::as_g::<G>, in thousandths of g
as_g(value, G) == value * G

-----------------------------------------------------------------------------
(* Bounds and input sets                                                   *)

\* longest value buffer handed to write_multiple / read_multiple
MaxBurst == 3

\* the byte values written in the bus scenarios
ByteSamples == {0, 90, 255}

\* register files the bus scenarios start from: the reset values, and a
\* pattern in which every register but WHO_AM_I holds a value telling its address
DevicePreStates ==
    {ResetRegs, [a \in Addresses |-> IF a = WhoAmI THEN ResetRegs[a] ELSE 255 - a]}

\* all value buffers of 1..MaxBurst sample bytes
ValueBuffers == UNION { [1..n -> ByteSamples] : n \in 1..MaxBurst }

\* the safety contract of write_multiple: every touched register is writable
AllWritable(start_address, n) ==
    \A i \in 0..(n - 1) : start_address + i \in ReadWriteRegisterAddress

-----------------------------------------------------------------------------
(* Device controller (src/lib.rs)                                          *)

DefaultConfig ==
    [odr |-> "PowerDown", lp_en |-> "NormalPowerMode", axis_enable |-> "XYZEnabled",
     fs |-> "S2G", hr |-> "NormalResolution"]

NoResult == [status |-> "none", data |-> <<>>, error |-> None]
NoSample == [lo |-> 0, hi |-> 0, out |-> 0, g |-> 0]

\* a call of the driver or of the bus, by name; read_and_verify also carries
\* the value it expects
NoOp == [name |-> "none", expected |-> 0]
DriverCall(name) == [name |-> name, expected |-> 0]

\* the errors the transport (the SpiDevice) can report
TransportErrors == {"Overrun", "ModeFault"}

\* a conversion that reports every transport error as Overrun
Error_from_Overrun(error) == <<"Bus", "Overrun">>

\* From<BusErrorType> for Error<BusErrorType>, applied by `?` in the driver
Error_from(error) == <<"Bus", error>>

\* a first block that starts one register too late
new_block1_from_TempCfgReg(b) ==
    spi_write_multiple(TempCfgReg, <<b.ctrl_reg0, b.temp_cfg_reg, b.ctrl_reg1>>)

\* a first block that starts at CTRL_REG5 (0x24) and runs into REFERENCE (0x26)
new_block1_from_CtrlReg5(b) ==
    spi_write_multiple(CtrlReg5, <<b.ctrl_reg0, b.temp_cfg_reg, b.ctrl_reg1>>)

\* Write Block 1 of Lis3dh::new: CtrlReg0 (0x1E) to CtrlReg1 (0x20)
new_block1(b) ==
    spi_write_multiple(CtrlReg0, <<b.ctrl_reg0, b.temp_cfg_reg, b.ctrl_reg1>>)

\* a second block sent to CTRL_REG3 (0x22)
new_block2_to_CtrlReg3(b) == spi_write(CtrlReg3, b.ctrl_reg4)

\* Write Block 2 of Lis3dh::new: CtrlReg4 (0x23)
new_block2(b) == spi_write(CtrlReg4, b.ctrl_reg4)

\* the first write left pending while Lis3dh::new goes on to the second
after_write_block1_unawaited == "block2"

\* `.await?` on the first write: Lis3dh::new goes on only once it has completed
after_write_block1 == "await_block1"

Init ==
    /\ pc = "start"
    /\ cfg = DefaultConfig
    /\ bytes = None
    /\ regs = ResetRegs
    /\ txlog = <<>>
    /\ inflight = <<>>
    /\ result = NoResult
    /\ regsSeq = ResetRegs
    /\ seqIdx = 0
    /\ sample = NoSample
    /\ op = NoOp
    /\ transport = <<>>
    /\ rawWritten = FALSE

\* The compiler decides whether Config<Odr, LpEn, AxisEnable, Fs, Hr> is a type
\* at all: only then can Lis3dh::new be called with it.
TypeCheck(c) ==
    /\ pc = "start"
    /\ cfg' = c
    /\ op' = DriverCall("new")
    /\ pc' = IF ValidLis3dhConfig(c) THEN "new" ELSE "rejected"
    /\ UNCHANGED <<bytes, regs, txlog, inflight, result, regsSeq, seqIdx, sample,
                   transport, rawWritten>>

\* Lis3dh::new up to its first await: render, then bus.write_multiple
NewWriteBlock1 ==
    /\ pc = "new"
    /\ LET b == render_as_bytes(cfg)
           call == new_block1(b)
       IN  /\ bytes' = Some(b)
           /\ txlog' = Append(txlog, call)
           /\ inflight' = Append(inflight, call.spi)
    /\ pc' = after_write_block1
    /\ UNCHANGED <<cfg, regs, result, regsSeq, seqIdx, sample, op, transport,
                   rawWritten>>

\* the first write succeeded: bus.write(CtrlReg4, ..) up to its await
NewWriteBlock2 ==
    /\ pc = "block2"
    /\ LET call == new_block2(bytes[1])
       IN  /\ txlog' = Append(txlog, call)
           /\ inflight' = Append(inflight, call.spi)
    /\ pc' = "await_block2"
    /\ UNCHANGED <<cfg, bytes, regs, result, regsSeq, seqIdx, sample, op, transport,
                   rawWritten>>

\* the transport completes the transaction in flight: the device has it
TransportOk ==
    /\ pc \in {"await_block1", "await_block2"}
    /\ inflight # <<>>
    /\ regs' = DeviceApply(regs, Head(inflight))
    /\ transport' = Append(transport, [spi |-> Head(inflight), outcome |-> "Ok"])
    /\ inflight' = Tail(inflight)
    /\ pc' = IF pc = "await_block1" THEN "block2" ELSE "ready"
    /\ result' = IF pc = "await_block1" THEN result
                 ELSE [status |-> "Ok", data |-> <<>>, error |-> None]
    /\ UNCHANGED <<cfg, bytes, txlog, regsSeq, seqIdx, sample, op, rawWritten>>

\* the transport fails the transaction in flight: `?` returns Err(Bus(e)), the
\* bus is dropped with the call
TransportErr(e) ==
    /\ pc \in {"await_block1", "await_block2"}
    /\ inflight # <<>>
    /\ transport' = Append(transport, [spi |-> Head(inflight), outcome |-> e])
    /\ inflight' = Tail(inflight)
    /\ pc' = "failed"
    /\ result' = [status |-> "Err", data |-> <<>>, error |-> Some(Error_from(e))]
    /\ UNCHANGED <<cfg, bytes, regs, txlog, regsSeq, seqIdx, sample, op, rawWritten>>

Next ==
    \/ \E c \in Config : TypeCheck(c)
    \/ NewWriteBlock1
    \/ NewWriteBlock2
    \/ TransportOk
    \/ \E e \in TransportErrors : TransportErr(e)

Spec == Init /\ [][Next]_vars

-----------------------------------------------------------------------------
(* The bus operations on their own: one call of Lis3dhAsyncSpi against a   *)
(* device, and, after a write_multiple, the same bytes sent to a second    *)
(* device by single writes.                                                *)

InitBus ==
    /\ pc = "bus"
    /\ cfg = DefaultConfig
    /\ bytes = None
    /\ regs \in DevicePreStates
    /\ regsSeq = regs
    /\ txlog = <<>>
    /\ inflight = <<>>
    /\ result = NoResult
    /\ seqIdx = 0
    /\ sample = NoSample
    /\ op = NoOp
    /\ transport = <<>>
    /\ rawWritten = FALSE

\* how the transport ends a transaction: Ok, or one of its errors
Outcomes == {"Ok"} \cup TransportErrors

\* a verdict that is true when the byte differs
read_and_verify_inverted(value, expected_result) ==
    IF value # expected_result THEN "Ok(true)" ELSE "Ok(false)"

\* Lis3dhBus::read_and_verify once its read has returned Ok(value)
read_and_verify(value, expected_result) ==
    IF value = expected_result THEN "Ok(true)" ELSE "Ok(false)"

\* what a bus call leaves behind: the one transaction it hands to the
\* transport, and what it returns on the transport's outcome; `?` hands the
\* transport's error back as it is
BusCall(o, call, outcome, next) ==
    /\ pc = "bus"
    /\ op' = o
    /\ txlog' = Append(txlog, call)
    /\ transport' = Append(transport, [spi |-> call.spi, outcome |-> outcome])
    /\ regs' = IF outcome = "Ok" THEN DeviceApply(regs, call.spi) ELSE regs
    /\ result' =
          IF outcome # "Ok"
          THEN [status |-> "Err", data |-> <<>>, error |-> Some(outcome)]
          ELSE LET reply == DeviceReply(regs, call.spi)
               IN  IF o.name = "read_and_verify"
                   THEN [status |-> read_and_verify(reply[1], o.expected),
                         data |-> <<>>, error |-> None]
                   ELSE [status |-> "Ok", data |-> reply, error |-> None]
    /\ pc' = IF outcome = "Ok" THEN next ELSE "done"
    /\ UNCHANGED <<cfg, bytes, inflight, regsSeq, seqIdx, sample, rawWritten>>

BusWrite(register_address, value, outcome) ==
    /\ pc = "bus"
    /\ register_address \in ReadWriteRegisterAddress
    /\ BusCall(DriverCall("write"), spi_write(register_address, value), outcome, "done")

BusWriteMultiple(start_address, values, outcome) ==
    /\ pc = "bus"
    /\ start_address \in ReadWriteRegisterAddress
    /\ AllWritable(start_address, Len(values))
    /\ BusCall(DriverCall("write_multiple"), spi_write_multiple(start_address, values),
               outcome, "seq")

BusRead(register_address, outcome) ==
    /\ pc = "bus"
    /\ register_address \in RegisterAddress
    /\ BusCall(DriverCall("read"), spi_read(register_address), outcome, "done")

BusReadMultiple(start_address, len, outcome) ==
    /\ pc = "bus"
    /\ start_address \in RegisterAddress
    /\ len \in 1..MaxBurst
    /\ BusCall(DriverCall("read_multiple"), spi_read_multiple(start_address, len),
               outcome, "done")

\* the provided method of the trait: self.read(address).await? == *expected_result
BusReadAndVerify(address, expected_result, outcome) ==
    /\ pc = "bus"
    /\ address \in RegisterAddress
    /\ expected_result \in 0..255
    /\ BusCall([name |-> "read_and_verify", expected |-> expected_result],
               spi_read(address), outcome, "done")

\* the next single write of the sequence values[i] -> start_address + i
SeqWrite ==
    /\ pc = "seq"
    /\ seqIdx < Len(txlog[1].values)
    /\ LET call == spi_write(txlog[1].addr + seqIdx, txlog[1].values[seqIdx + 1])
       IN  regsSeq' = DeviceApply(regsSeq, call.spi)
    /\ seqIdx' = seqIdx + 1
    /\ UNCHANGED <<pc, cfg, bytes, regs, txlog, inflight, result, sample, op,
                   transport, rawWritten>>

SeqDone ==
    /\ pc = "seq"
    /\ seqIdx = Len(txlog[1].values)
    /\ pc' = "seq_done"
    /\ UNCHANGED <<cfg, bytes, regs, txlog, inflight, result, regsSeq, seqIdx, sample,
                   op, transport, rawWritten>>

\* the values read_and_verify is asked to expect: the reset values of
\* WHO_AM_I, CTRL_REG0 and CTRL_REG1, and the sample bytes
ExpectedSamples == {ResetRegs[WhoAmI], ResetRegs[CtrlReg0], ResetRegs[CtrlReg1]} \cup ByteSamples

NextBus ==
    \/ \E a \in ReadWriteRegisterAddress, v \in ByteSamples, o \in Outcomes :
          BusWrite(a, v, o)
    \/ \E a \in ReadWriteRegisterAddress, vs \in ValueBuffers, o \in Outcomes :
          BusWriteMultiple(a, vs, o)
    \/ \E ra \in RegisterAddress, o \in Outcomes : BusRead(ra, o)
    \/ \E ra \in RegisterAddress, n \in 1..MaxBurst, o \in Outcomes :
          BusReadMultiple(ra, n, o)
    \/ \E ra \in RegisterAddress, x \in ExpectedSamples, o \in Outcomes :
          BusReadAndVerify(ra, x, o)
    \/ SeqWrite
    \/ SeqDone

SpecBus == InitBus /\ [][NextBus]_vars

-----------------------------------------------------------------------------
(* The sample decoder on its own: every byte pair under every resolution a *)
(* valid configuration can have.                                           *)

\* one valid configuration per (lp_en, hr, fs) triple
DecodeConfigs ==
    { c \in Config : /\ ValidLis3dhConfig(c)
                     /\ c.odr = "F100Hz"
                     /\ c.axis_enable = "XYZEnabled" }

InitDecode ==
    /\ pc = "decode"
    /\ cfg \in DecodeConfigs
    /\ sample \in [lo : 0..255, hi : 0..255, out : {0}, g : {0}]
    /\ bytes = None
    /\ regs = ResetRegs
    /\ regsSeq = ResetRegs
    /\ txlog = <<>>
    /\ inflight = <<>>
    /\ result = NoResult
    /\ seqIdx = 0
    /\ op = NoOp
    /\ transport = <<>>
    /\ rawWritten = FALSE

Decode ==
    /\ pc = "decode"
    /\ LET value == accel_raw_into_i16(cfg, sample.lo, sample.hi)
       IN  sample' = [sample EXCEPT !.out = value,
                                    !.g = as_g(value, Config_GravityCoefficient(cfg))]
    /\ pc' = "decoded"
    /\ UNCHANGED <<cfg, bytes, regs, txlog, inflight, result, regsSeq, seqIdx, op, transport, rawWritten>>

NextDecode == Decode

SpecDecode == InitDecode /\ [][NextDecode]_vars

-----------------------------------------------------------------------------
(* The life of a handle: Lis3dh::new, then calls on the handle it returned. *)
(* reconfigure takes the handle by value and runs Lis3dh::new on its bus;  *)
(* the other calls borrow it (&mut self) until they return, so the next    *)
(* call starts from "ready" only.                                          *)

\* number of bytes read_accel_bytes asks for
AccelBytes == 6

\* a read of WHO_AM_I sent to STATUS_REG_AUX instead
read_who_am_i_StatusRegAux == spi_read(<<"ReadOnly", StatusRegAux>>)

\* the bus call of read_who_am_i
read_who_am_i == spi_read(<<"ReadOnly", WhoAmI>>)

\* a burst that starts at OUT_X_H
read_accel_bytes_from_OutXH == spi_read_multiple(<<"ReadOnly", OutXH>>, AccelBytes)

\* the bus call of read_accel_bytes
read_accel_bytes == spi_read_multiple(<<"ReadOnly", OutXL>>, AccelBytes)

\* a vector whose pairs are taken as (high, low)
get_accel_vector_high_low(c, b) ==
    <<accel_raw_into_i16(c, b[2], b[1]),
      accel_raw_into_i16(c, b[4], b[3]),
      accel_raw_into_i16(c, b[6], b[5])>>

\* get_accel_vector once read_accel_bytes has returned the six bytes b:
\* the AccelerationVector as <<x, y, z>>
get_accel_vector(c, b) ==
    <<accel_raw_into_i16(c, b[1], b[2]),
      accel_raw_into_i16(c, b[3], b[4]),
      accel_raw_into_i16(c, b[5], b[6])>>

\* the configurations the handle is created with and reconfigured to: one per
\* resolution, with both meanings of the raw data rate 0b1001, and a candidate
\* the compiler refuses
DriverConfigs ==
    { [odr |-> "F100Hz", lp_en |-> "NormalPowerMode", axis_enable |-> "XYZEnabled",
       fs |-> "S2G", hr |-> "NormalResolution"],
      [odr |-> "F5376Hz", lp_en |-> "LowPowerMode", axis_enable |-> "XYZEnabled",
       fs |-> "S4G", hr |-> "NormalResolution"],
      [odr |-> "F1344Hz", lp_en |-> "NormalPowerMode", axis_enable |-> "XEnabled",
       fs |-> "S16G", hr |-> "HighResolution"],
      [odr |-> "F1600Hz", lp_en |-> "LowPowerMode", axis_enable |-> "XYZEnabled",
       fs |-> "S8G", hr |-> "HighResolution"] }

\* the samples the device holds in OUT_X_L .. OUT_Z_H
SampleVectors == { <<255, 15, 0, 128, 52, 18>>, <<1, 2, 3, 4, 5, 6>> }

\* the device before Lis3dh::new: reset values, a sample in the output registers
DriverPreStates ==
    { [a \in Addresses |->
          IF a \in OutXL..(OutXL + AccelBytes - 1) THEN v[a - OutXL + 1] ELSE ResetRegs[a]]
      : v \in SampleVectors }

\* the raw reads and writes made through the handle
RawReadAddresses ==
    { <<"ReadOnly", WhoAmI>>, <<"ReadOnly", OutXL>>, <<"ReadWrite", CtrlReg1>>,
      <<"ReadWrite", CtrlReg4>> }
RawWrites == { <<CtrlReg2, 90>>, <<CtrlReg4, 136>> }
RawWriteBursts == { <<CtrlReg2, <<90, 255>> >> }

InitDriver ==
    /\ pc = "start"
    /\ cfg = DefaultConfig
    /\ bytes = None
    /\ regs \in DriverPreStates
    /\ txlog = <<>>
    /\ inflight = <<>>
    /\ result = NoResult
    /\ regsSeq = ResetRegs
    /\ seqIdx = 0
    /\ sample = NoSample
    /\ op = NoOp
    /\ transport = <<>>
    /\ rawWritten = FALSE

\* reconfigure(self, new_config): Lis3dh::new(self.bus, new_config)
Reconfigure(new_config) ==
    /\ pc = "ready"
    /\ ValidLis3dhConfig(new_config)
    /\ cfg' = new_config
    /\ op' = DriverCall("reconfigure")
    /\ bytes' = None
    /\ txlog' = <<>>
    /\ transport' = <<>>
    /\ result' = NoResult
    /\ pc' = "new"
    /\ UNCHANGED <<regs, inflight, regsSeq, seqIdx, sample, rawWritten>>

\* a call on the handle up to its await: the one bus call it makes is handed
\* to the transport
HandleCall(name, call) ==
    /\ op' = DriverCall(name)
    /\ txlog' = <<call>>
    /\ transport' = <<>>
    /\ inflight' = Append(inflight, call.spi)
    /\ result' = NoResult
    /\ pc' = "await_call"
    /\ UNCHANGED <<cfg, bytes, regs, regsSeq, seqIdx, sample>>

ReadWhoAmI ==
    /\ pc = "ready"
    /\ HandleCall("read_who_am_i", read_who_am_i)
    /\ UNCHANGED rawWritten

GetAccelVector ==
    /\ pc = "ready"
    /\ HandleCall("get_accel_vector", read_accel_bytes)
    /\ UNCHANGED rawWritten

ReadRegister(register_address) ==
    /\ pc = "ready"
    /\ register_address \in RegisterAddress
    /\ HandleCall("read_register", spi_read(register_address))
    /\ UNCHANGED rawWritten

ReadMultipleRegisters(start_address, len) ==
    /\ pc = "ready"
    /\ start_address \in RegisterAddress
    /\ len \in 1..MaxBurst
    /\ HandleCall("read_multiple_registers", spi_read_multiple(start_address, len))
    /\ UNCHANGED rawWritten

WriteRegister(register_address, value) ==
    /\ pc = "ready"
    /\ register_address \in ReadWriteRegisterAddress
    /\ HandleCall("write_register", spi_write(register_address, value))
    /\ rawWritten' = TRUE

WriteMultipleRegisters(start_address, values) ==
    /\ pc = "ready"
    /\ start_address \in ReadWriteRegisterAddress
    /\ HandleCall("write_multiple_registers", spi_write_multiple(start_address, values))
    /\ rawWritten' = TRUE

\* what the call returns in Ok once the bus call returned the bytes reply
CallReturn(name, c, reply) ==
    IF name = "get_accel_vector" THEN get_accel_vector(c, reply) ELSE reply

\* the transport completes the transaction of the call: the call returns Ok
CallTransportOk ==
    /\ pc = "await_call"
    /\ inflight # <<>>
    /\ LET spi == Head(inflight)
       IN  /\ regs' = DeviceApply(regs, spi)
           /\ transport' = Append(transport, [spi |-> spi, outcome |-> "Ok"])
           /\ result' = [status |-> "Ok",
                         data |-> CallReturn(op.name, cfg, DeviceReply(regs, spi)),
                         error |-> None]
    /\ inflight' = Tail(inflight)
    /\ pc' = "ready"
    /\ UNCHANGED <<cfg, bytes, txlog, regsSeq, seqIdx, sample, op, rawWritten>>

\* the transport fails it: `?` returns Err(Bus(e)); the handle was only borrowed
CallTransportErr(e) ==
    /\ pc = "await_call"
    /\ inflight # <<>>
    /\ transport' = Append(transport, [spi |-> Head(inflight), outcome |-> e])
    /\ result' = [status |-> "Err", data |-> <<>>, error |-> Some(Error_from(e))]
    /\ inflight' = Tail(inflight)
    /\ pc' = "ready"
    /\ UNCHANGED <<cfg, bytes, regs, txlog, regsSeq, seqIdx, sample, op, rawWritten>>

NextDriver ==
    \/ \E c \in DriverConfigs : TypeCheck(c)
    \/ NewWriteBlock1
    \/ NewWriteBlock2
    \/ TransportOk
    \/ \E e \in TransportErrors : TransportErr(e)
    \/ \E c \in DriverConfigs : Reconfigure(c)
    \/ ReadWhoAmI
    \/ GetAccelVector
    \/ \E ra \in RawReadAddresses : ReadRegister(ra)
    \/ \E ra \in RawReadAddresses, n \in 1..MaxBurst : ReadMultipleRegisters(ra, n)
    \/ \E w \in RawWrites : WriteRegister(w[1], w[2])
    \/ \E w \in RawWriteBursts : WriteMultipleRegisters(w[1], w[2])
    \/ CallTransportOk
    \/ \E e \in TransportErrors : CallTransportErr(e)

SpecDriver == InitDriver /\ [][NextDriver]_vars

-----------------------------------------------------------------------------
(* Properties                                                              *)

\* the configuration has passed the type-check (Lis3dh::new can run on it)
Accepted == pc \in {"new", "await_block1", "block2", "await_block2", "ready", "failed"}

C2_DocPowerModes(o) ==
    CASE o = "F1344Hz" -> {"NormalPowerMode"}
      [] o \in {"F1600Hz", "F5376Hz"} -> {"LowPowerMode"}
      [] o \in {"PowerDown", "F1Hz", "F10Hz", "F25Hz", "F50Hz", "F100Hz", "F200Hz",
                "F400Hz"} -> {"NormalPowerMode", "LowPowerMode"}
      [] OTHER -> {}

\* C2: a (data rate, power mode) pair outside the documented table is rejected
\* before anything is rendered; a pair inside it is accepted (the resolution
\* mode being NormalResolution, which either power mode allows); an accepted
\* configuration always has a documented pair.
C2_DataRateLegality ==
    pc # "start" =>
        /\ cfg.lp_en \notin C2_DocPowerModes(cfg.odr)
              => (pc = "rejected" /\ bytes = None /\ txlog = <<>>)
        /\ (cfg.lp_en \in C2_DocPowerModes(cfg.odr) /\ cfg.hr = "NormalResolution")
              => Accepted
        /\ Accepted => cfg.lp_en \in C2_DocPowerModes(cfg.odr)

\* F1600Hz with NormalPowerMode was rejected on its data rate alone
C2_Witness ==
    /\ pc = "rejected"
    /\ cfg.odr = "F1600Hz"
    /\ cfg.lp_en = "NormalPowerMode"
    /\ cfg.hr = "NormalResolution"

\* what a bus call says: the operation, the address, the values handed over
CallOf(call) == <<call.op, call.addr, call.values>>

\* the calls C3 expects of Lis3dh::new for configuration c
C3_ExpectedCalls(c) ==
    LET b == render_as_bytes(c)
    IN  << <<"write_multiple", 30, <<b.ctrl_reg0, b.temp_cfg_reg, b.ctrl_reg1>> >>,
           <<"write", 35, <<b.ctrl_reg4>> >> >>

C3_Example ==
    [odr |-> "F100Hz", lp_en |-> "NormalPowerMode", axis_enable |-> "XYZEnabled",
     fs |-> "S2G", hr |-> "NormalResolution"]

\* C3: Lis3dh::new issues, in this order and nothing else, one multi-write of
\* [ctrl_reg0, temp_cfg_reg, ctrl_reg1] at 0x1E and one single write of
\* ctrl_reg4 at 0x23, each one SPI transaction; when it has succeeded both
\* were issued; for the example configuration the payloads are
\* [0x10, 0x00, 0x57] and 0x00.
C3_NewIssuesTwoWrites ==
    /\ Len(txlog) <= 2
    /\ \A i \in 1..Len(txlog) : CallOf(txlog[i]) = C3_ExpectedCalls(cfg)[i]
    /\ Len(txlog) = (CASE pc \in {"start", "rejected", "new"} -> 0
                       [] pc \in {"await_block1", "block2"} -> 1
                       [] pc \in {"await_block2", "ready"} -> 2
                       [] pc = "failed" -> Len(txlog))
    /\ pc = "ready" => inflight = None
    /\ (pc = "ready" /\ cfg = C3_Example)
          => /\ txlog[1].values = <<16, 0, 87>>
             /\ txlog[2].values = <<0>>

\* new has succeeded on the example configuration
C3_Witness ==
    /\ pc = "ready"
    /\ cfg = C3_Example
    /\ Len(txlog) = 2
    /\ result.status = "Ok"

\* the raw values of the datasheet tables, per type-state
C4_odr ==
    [PowerDown |-> 0, F1Hz |-> 1, F10Hz |-> 2, F25Hz |-> 3, F50Hz |-> 4,
     F100Hz |-> 5, F200Hz |-> 6, F400Hz |-> 7, F1600Hz |-> 8, F1344Hz |-> 9,
     F5376Hz |-> 9]
C4_lp_en == [NormalPowerMode |-> 0, LowPowerMode |-> 1]
C4_axis_enable ==
    [XYZDisabled |-> 0, XEnabled |-> 1, YEnabled |-> 2, XYEnabled |-> 3,
     ZEnabled |-> 4, XZEnabled |-> 5, YZEnabled |-> 6, XYZEnabled |-> 7]
C4_fs == [S2G |-> 0, S4G |-> 1, S8G |-> 2, S16G |-> 3]
C4_hr == [NormalResolution |-> 0, HighResolution |-> 1]

\* C4: the rendered ctrl_reg1 is (odr << 4) | (lp_en << 3) | axis_enable and the
\* rendered ctrl_reg4 is (fs << 4) | (hr << 3) with bdu, ble, st, sim at 0,
\* the raw values being those of the datasheet tables: bit by bit, a bit of the
\* byte is set exactly when it is set in one of the shifted raw values.
C4_RenderIsOrOfShiftedFields ==
    bytes # None =>
        LET b == bytes[1]
            o == C4_odr[cfg.odr]
            l == C4_lp_en[cfg.lp_en]
            a == C4_axis_enable[cfg.axis_enable]
            f == C4_fs[cfg.fs]
            h == C4_hr[cfg.hr]
        IN  /\ b.ctrl_reg1 = o * 16 + l * 8 + a
            /\ b.ctrl_reg4 = 0 * 128 + 0 * 64 + f * 16 + h * 8 + 0 * 2 + 0
            /\ \A i \in 0..7 :
                  /\ Bit(b.ctrl_reg1, i) = 1
                        <=> \/ Bit(o * 16, i) = 1
                            \/ Bit(l * 8, i) = 1
                            \/ Bit(a, i) = 1
                  /\ Bit(b.ctrl_reg4, i) = 1
                        <=> \/ Bit(f * 16, i) = 1
                            \/ Bit(h * 8, i) = 1

\* F100Hz, XYZEnabled and S16G were rendered to 0x57 and 0x30
C4_Witness ==
    /\ bytes # None
    /\ cfg.odr = "F100Hz"
    /\ cfg.lp_en = "NormalPowerMode"
    /\ cfg.axis_enable = "XYZEnabled"
    /\ cfg.fs = "S16G"
    /\ cfg.hr = "NormalResolution"
    /\ bytes[1].ctrl_reg1 = 87
    /\ bytes[1].ctrl_reg4 = 48

\* C5: whatever the configuration, ctrl_reg0 is rendered 0x10, temp_cfg_reg
\* 0x00, and bdu, ble, st, sim of ctrl_reg4 are 0 (ctrl_reg4 & 0b11000111 = 0);
\* ble = 0 is little-endian, the byte order the decoder reads (the byte at the
\* lower address is the low byte).
C5_UnmanagedFieldsAtReset ==
    bytes # None =>
        /\ bytes[1].ctrl_reg0 = 16
        /\ bytes[1].temp_cfg_reg = 0
        /\ BitAnd(bytes[1].ctrl_reg4, 199) = 0
        /\ Bit(bytes[1].ctrl_reg4, 6) = ble_Variant["LittleEndian"]
        /\ i16_from_le_bytes(1, 0) = 1
        /\ (pc = "ready" => /\ regs[CtrlReg0] = 16
                            /\ regs[TempCfgReg] = 0
                            /\ BitAnd(regs[CtrlReg4], 199) = 0)

\* a configuration with every managed bit of ctrl_reg4 set reached the device
C5_Witness ==
    /\ pc = "ready"
    /\ cfg.fs = "S16G"
    /\ cfg.hr = "HighResolution"
    /\ bytes[1].ctrl_reg4 = 56
    /\ regs[CtrlReg4] = 56

\* (byte >> OFFSET) & (2^WIDTH - 1)
ExtractField(byte, OFFSET, WIDTH) == (byte \div Pow2(OFFSET)) % Pow2(WIDTH)

\* the variant of an enum whose discriminant is raw
VariantOfRaw(variants, raw) ==
    IF \E v \in DOMAIN variants : variants[v] = raw
    THEN CHOOSE v \in DOMAIN variants : variants[v] = raw
    ELSE "invalid"

\* the five fields decoded out of the rendered bytes
C6_Decoded(b) ==
    [odr |-> VariantOfRaw(odr_Variant, ExtractField(b.ctrl_reg1, odr_OFFSET, odr_WIDTH)),
     lp_en |-> VariantOfRaw(lp_en_Variant,
                            ExtractField(b.ctrl_reg1, lp_en_OFFSET, lp_en_WIDTH)),
     axis_enable |-> VariantOfRaw(axis_enable_Variant,
                                  ExtractField(b.ctrl_reg1, axis_enable_OFFSET,
                                               axis_enable_WIDTH)),
     fs |-> VariantOfRaw(fs_Variant, ExtractField(b.ctrl_reg4, fs_OFFSET, fs_WIDTH)),
     hr |-> VariantOfRaw(hr_Variant, ExtractField(b.ctrl_reg4, hr_OFFSET, hr_WIDTH))]

\* C6 as claimed: decoding the rendered bytes recovers, field by field, exactly
\* what the configuration chose.
C6_RoundTripRecoversChoice ==
    bytes # None => C6_Decoded(bytes[1]) = cfg

\* C6 as amended: decoding recovers the Variant of every chosen type-state; that
\* is the choice itself for lp_en, axis_enable, fs, hr and for every data rate
\* but F5376Hz, whose Variant is F1344Hz (raw 0b1001).
C6_RoundTripRecoversVariant ==
    bytes # None =>
        LET d == C6_Decoded(bytes[1])
        IN  /\ d.odr = odr_State[cfg.odr]
            /\ d.lp_en = cfg.lp_en
            /\ d.axis_enable = cfg.axis_enable
            /\ d.fs = cfg.fs
            /\ d.hr = cfg.hr
            /\ cfg.odr # "F5376Hz" => d.odr = cfg.odr
            /\ cfg.odr = "F5376Hz" => d.odr = "F1344Hz"

\* F5376Hz was rendered and decodes as F1344Hz, the rest as chosen
C6_Witness ==
    /\ bytes # None
    /\ cfg.odr = "F5376Hz"
    /\ cfg.lp_en = "LowPowerMode"
    /\ cfg.fs = "S8G"
    /\ C6_Decoded(bytes[1]).odr = "F1344Hz"
    /\ C6_Decoded(bytes[1]).lp_en = "LowPowerMode"
    /\ C6_Decoded(bytes[1]).fs = "S8G"

\* the two operation bits of each bus operation
C7_OpBits == [write |-> 0, write_multiple |-> 1, read |-> 2, read_multiple |-> 3]

\* C7: every bus call makes one SPI transaction that starts with one control
\* byte, top two bits 00/01/10/11 for write/write_multiple/read/read_multiple,
\* low six bits the register address (every enumerated address is <= 0x3F);
\* after it come only the values written or the bytes read.
C7_ControlByte ==
    /\ \A a \in ReadWriteRegisterAddress \cup ReadOnlyRegisterAddress : a <= 63
    /\ \A i \in 1..Len(txlog) :
          LET call == txlog[i]
              w    == SpiWritten(call.spi)
          IN  /\ Len(w) >= 1
              /\ call.spi[1].kind = "Write"
              /\ w[1] \div 64 = C7_OpBits[call.op]
              /\ w[1] % 64 = call.addr
              /\ Tail(w) = call.values
              /\ SpiReadLen(call.spi) = call.len
              /\ call.op \in {"write", "write_multiple"} => call.len = 0
              /\ call.op = "read" => (call.len = 1 /\ call.values = <<>>)
              /\ call.op = "read_multiple" => call.values = <<>>

\* a three-byte read_multiple at OUT_X_L went out with control byte 0b11_101000
C7_Witness ==
    /\ pc = "done"
    /\ Len(txlog) = 1
    /\ txlog[1].op = "read_multiple"
    /\ txlog[1].addr = OutXL
    /\ txlog[1].len = 3
    /\ SpiWritten(txlog[1].spi) = <<232>>

\* C8: after a successful write_multiple of N values at A, the device is in
\* the state N successful single writes of values[i] at A + i leave it in.
C8_WriteMultipleIsSingleWrites ==
    pc = "seq_done" => regs = regsSeq

\* three bytes written at CTRL_REG0 arrived in CTRL_REG0, TEMP_CFG_REG, CTRL_REG1
C8_Witness ==
    /\ pc = "seq_done"
    /\ txlog[1].op = "write_multiple"
    /\ txlog[1].addr = CtrlReg0
    /\ txlog[1].values = <<90, 255, 0>>
    /\ seqIdx = 3
    /\ regs[CtrlReg0] = 90
    /\ regs[TempCfgReg] = 255
    /\ regs[CtrlReg1] = 0

\* C9: the decoded value is the little-endian 16-bit two's-complement integer
\* low + 256*high shifted right arithmetically by 16 - r, i.e. its quotient by
\* 2^(16-r) rounded down, for r = 8, 10, 12; it lies in [-2^(r-1), 2^(r-1)-1];
\* [0xFF, 0x0F] at 12 bits is 0x0FFF >> 4 = 255, [0x00, 0x80] at 8 bits is -128.
C9_DecodeIsArithmeticShift ==
    pc = "decoded" =>
        LET r == Resolution(cfg.lp_en, cfg.hr)
            v == sample.lo + 256 * sample.hi - 65536 * (sample.hi \div 128)
        IN  /\ r \in {8, 10, 12}
            /\ sample.out = v \div Pow2(16 - r)
            /\ sample.out >= -Pow2(r - 1)
            /\ sample.out <= Pow2(r - 1) - 1
            /\ (sample.lo = 255 /\ sample.hi = 15 /\ r = 12) => sample.out = 255
            /\ (sample.lo = 0 /\ sample.hi = 128 /\ r = 8) => sample.out = -128

\* [0x00, 0x80] was decoded at 8 bits to -128
C9_Witness ==
    /\ pc = "decoded"
    /\ sample.lo = 0
    /\ sample.hi = 128
    /\ Resolution(cfg.lp_en, cfg.hr) = 8
    /\ sample.out = -128

\* C10: on every accepted configuration the resolution is 8 bits for
\* (LowPowerMode, NormalResolution), 10 for (NormalPowerMode, NormalResolution),
\* 12 for (NormalPowerMode, HighResolution); the unreachable arm
\* (LowPowerMode, HighResolution) is never taken for a configuration that
\* reaches Lis3dh::new.
C10_ResolutionTotalOnLegal ==
    Accepted =>
        LET r == Resolution(cfg.lp_en, cfg.hr)
        IN  /\ r # resolution_unreachable
            /\ r \in {8, 10, 12}
            /\ r = 8 <=> (cfg.lp_en = "LowPowerMode" /\ cfg.hr = "NormalResolution")
            /\ r = 10 <=> (cfg.lp_en = "NormalPowerMode" /\ cfg.hr = "NormalResolution")
            /\ r = 12 <=> (cfg.lp_en = "NormalPowerMode" /\ cfg.hr = "HighResolution")
            /\ ~(cfg.lp_en = "LowPowerMode" /\ cfg.hr = "HighResolution")

\* a handle exists for a low-power configuration, whose resolution is 8 bits
C10_Witness ==
    /\ pc = "ready"
    /\ cfg.lp_en = "LowPowerMode"
    /\ cfg.hr = "NormalResolution"
    /\ Resolution(cfg.lp_en, cfg.hr) = 8

\* the table of C11, in thousandths of g per digit, for 8/10/12 bits
C11_Table ==
    [S2G |-> <<16, 4, 1>>, S4G |-> <<32, 8, 2>>, S8G |-> <<64, 16, 4>>,
     S16G |-> <<192, 48, 12>>]

C11_Column(r) == CASE r = 8 -> 1 [] r = 10 -> 2 [] r = 12 -> 3 [] OTHER -> 0

\* C11: the gravity coefficient of a configuration is the table value for its
\* (full scale, resolution), and as_g multiplies the decoded value by it; in
\* particular +-4g at 10 bits gives 0.008 g per digit.
C11_GravityCoefficientTable ==
    pc = "decoded" =>
        LET r == Resolution(cfg.lp_en, cfg.hr)
            k == Config_GravityCoefficient(cfg)
        IN  /\ C11_Column(r) \in 1..3
            /\ k = C11_Table[cfg.fs][C11_Column(r)]
            /\ sample.g = sample.out * C11_Table[cfg.fs][C11_Column(r)]
            /\ (cfg.fs = "S4G" /\ r = 10) => (k = 8 /\ sample.g = 8 * sample.out)

\* one digit at +-4g, 10 bits, came out as 0.008 g
C11_Witness ==
    /\ pc = "decoded"
    /\ cfg.fs = "S4G"
    /\ Resolution(cfg.lp_en, cfg.hr) = 10
    /\ sample.lo = 64
    /\ sample.hi = 0
    /\ sample.out = 1
    /\ sample.g = 8

\* C12: a transport failure is propagated at once, never retried or
\* swallowed: a call hands each of its bus calls to the transport at most
\* once, the first failure is the last transaction of the call and the call
\* returns that error, wrapped in Error::Bus and otherwise unchanged; when the
\* first write of Lis3dh::new fails the CTRL_REG4 write is never issued, and
\* when either write fails there is no handle.
C12_TransportErrorPropagated ==
    /\ Len(transport) <= Len(txlog)
    /\ Len(transport) + Len(inflight) = Len(txlog)
    /\ \A i \in 1..Len(transport) :
          /\ transport[i].spi = txlog[i].spi
          /\ transport[i].outcome # "Ok"
                => /\ i = Len(transport)
                   /\ Len(txlog) = i
                   /\ inflight = <<>>
                   /\ result.status = "Err"
                   /\ result.data = <<>>
                   /\ result.error = << <<"Bus", transport[i].outcome>> >>
    /\ result.status = "Err"
          => /\ transport # <<>>
             /\ transport[Len(transport)].outcome \in TransportErrors
    /\ pc = "failed"
          <=> (op.name \in {"new", "reconfigure"} /\ result.status = "Err")
    /\ (pc = "failed" /\ Len(transport) = 1)
          => /\ Len(txlog) = 1
             /\ txlog[1].addr = CtrlReg0
             /\ \A i \in 1..Len(txlog) : txlog[i].addr # CtrlReg4

\* the first write of a reconfigure failed with ModeFault: one transaction,
\* no CTRL_REG4 write, Err(Bus(ModeFault)) and no handle
C12_Witness ==
    /\ pc = "failed"
    /\ op.name = "reconfigure"
    /\ Len(txlog) = 1
    /\ Len(transport) = 1
    /\ transport[1].outcome = "ModeFault"
    /\ result.error = << <<"Bus", "ModeFault">> >>

\* C13: at most one transaction is in flight on the bus: a call hands a
\* transaction to the transport only when the one before has completed, and
\* between calls, and once a call has failed, none is in flight.
C13_OneTransactionInFlight ==
    /\ Len(inflight) <= 1
    /\ inflight # <<>>
          => /\ pc \in {"await_block1", "await_block2", "await_call"}
             /\ txlog # <<>>
             /\ inflight[1] = txlog[Len(txlog)].spi
    /\ pc \in {"start", "rejected", "new", "block2", "ready", "failed"}
          => inflight = <<>>

\* the CTRL_REG4 write of a reconfigure is in flight, alone, on a handle that
\* has made raw writes before
C13_Witness ==
    /\ pc = "await_block2"
    /\ op.name = "reconfigure"
    /\ rawWritten
    /\ Len(inflight) = 1
    /\ Len(transport) = 1

\* C14: reconfigure(new_config) issues the transactions Lis3dh::new issues
\* for new_config, with the same bytes, whatever the device holds: once it
\* has succeeded both writes were issued and completed, also when every
\* managed register already held the value written.
C14_ReconfigureIsNew ==
    op.name = "reconfigure" =>
        /\ Len(txlog) <= 2
        /\ \A i \in 1..Len(txlog) :
              /\ CallOf(txlog[i]) = C3_ExpectedCalls(cfg)[i]
              /\ txlog[i].spi =
                    (IF i = 1
                     THEN <<SpiWrite(<<MultipleWrite + CtrlReg0>>),
                            SpiWrite(C3_ExpectedCalls(cfg)[1][3])>>
                     ELSE <<SpiWrite(<<SingleWrite + CtrlReg4>>
                                     \o C3_ExpectedCalls(cfg)[2][3])>>)
        /\ pc = "ready"
              => /\ Len(txlog) = 2
                 /\ Len(transport) = 2
                 /\ \A i \in 1..2 : /\ transport[i].spi = txlog[i].spi
                                    /\ transport[i].outcome = "Ok"

\* a reconfigure to the configuration the device already has: CTRL_REG1 was
\* rewritten and the CTRL_REG4 write is in flight with the value already there
C14_Witness ==
    /\ op.name = "reconfigure"
    /\ pc = "await_block2"
    /\ ~rawWritten
    /\ Len(txlog) = 2
    /\ regs[CtrlReg4] = bytes[1].ctrl_reg4
    /\ cfg.hr = "HighResolution"

\* the registers Lis3dh::new manages
C15_Managed == {CtrlReg0, TempCfgReg, CtrlReg1, CtrlReg4}

\* the managed registers hold the rendered bytes of the current configuration
C15_ManagedAreRendered ==
    LET b == render_as_bytes(cfg)
    IN  /\ regs[CtrlReg0] = b.ctrl_reg0
        /\ regs[TempCfgReg] = b.temp_cfg_reg
        /\ regs[CtrlReg1] = b.ctrl_reg1
        /\ regs[CtrlReg4] = b.ctrl_reg4

\* C15: when a handle exists and no raw write was made, the four managed
\* registers hold the rendered bytes of the most recent configuration and
\* CTRL_REG2, CTRL_REG3 and the other registers outside the output registers
\* hold what they held at reset; and no step of new or reconfigure changes a
\* register other than the four.
C15_OnlyManagedRegistersWritten ==
    /\ [](((pc \in {"ready", "await_call"}) /\ ~rawWritten)
             => /\ C15_ManagedAreRendered
                /\ \A a \in Addresses \ C15_Managed :
                      a \notin OutXL..(OutXL + AccelBytes - 1) => regs[a] = ResetRegs[a])
    /\ [][(op'.name \in {"new", "reconfigure"})
             => \A a \in Addresses \ C15_Managed : regs'[a] = regs[a]]_vars
    /\ [](((pc = "ready") /\ op.name \in {"new", "reconfigure"})
             => C15_ManagedAreRendered)

\* a handle reconfigured from another configuration to the low-power one
C15_Witness ==
    /\ pc = "ready"
    /\ op.name = "reconfigure"
    /\ ~rawWritten
    /\ cfg.odr = "F5376Hz"
    /\ regs[CtrlReg1] = 159
    /\ regs[CtrlReg4] = 16
    /\ regs[CtrlReg2] = 0
    /\ regs[CtrlReg3] = 0

\* the value of the pair (low, high) at r bits, by floor division
C16_Axis(low, high, r) ==
    (low + 256 * high - 65536 * (high \div 128)) \div Pow2(16 - r)

\* C16: get_accel_vector makes one bus call, a read_multiple of six bytes at
\* OUT_X_L (0x28), in one transaction that writes nothing to the device; once
\* it has returned Ok the vector is x from bytes (0,1), y from (2,3), z from
\* (4,5) of the output registers, each (low, high); once it has returned Err
\* there is the error and no vector.
C16_GetAccelVector ==
    op.name = "get_accel_vector" =>
        /\ Len(txlog) = 1
        /\ CallOf(txlog[1]) = <<"read_multiple", 40, <<>> >>
        /\ txlog[1].len = 6
        /\ txlog[1].spi = <<SpiWrite(<<232>>), SpiRead(6)>>
        /\ DeviceApply(regs, txlog[1].spi) = regs
        /\ pc = "ready"
              => /\ Len(transport) = 1
                 /\ transport[1].spi = txlog[1].spi
                 /\ result.status \in {"Ok", "Err"}
                 /\ result.status = "Ok"
                       => LET r == Resolution(cfg.lp_en, cfg.hr)
                          IN  result.data =
                                 <<C16_Axis(regs[40], regs[41], r),
                                   C16_Axis(regs[42], regs[43], r),
                                   C16_Axis(regs[44], regs[45], r)>>
                 /\ result.status = "Err"
                       => (result.data = <<>> /\ result.error # None)

\* the sample FF 0F / 00 80 / 34 12 read at 12 bits is (255, -2048, 291)
C16_Witness ==
    /\ op.name = "get_accel_vector"
    /\ pc = "ready"
    /\ result.status = "Ok"
    /\ Resolution(cfg.lp_en, cfg.hr) = 12
    /\ regs[OutXL] = 255
    /\ result.data = <<255, -2048, 291>>

\* the addresses a transaction stores to in the device
C17_Stored(spi) ==
    LET w == SpiWritten(spi)
    IN  IF w = <<>> \/ Bit(w[1], 7) = 1 THEN {}
        ELSE { ((w[1] % 64) + Bit(w[1], 6) * (i - 1)) % 64 : i \in 1..(Len(w) - 1) }

\* C17: the writes of new and reconfigure store to 0x1E, 0x1F, 0x20 and 0x23
\* only, all of them ReadWriteRegisterAddress; a single write is always
\* addressed to a ReadWriteRegisterAddress; get_accel_vector, read_who_am_i
\* and read_register make read calls only, which store nothing.
C17_DriverWritesOnlyReadWrite ==
    \A i \in 1..Len(txlog) :
        LET call == txlog[i]
        IN  /\ op.name \in {"new", "reconfigure"}
                  => /\ call.op \in {"write", "write_multiple"}
                     /\ C17_Stored(call.spi) \subseteq ReadWriteRegisterAddress
                     /\ C17_Stored(call.spi) \subseteq {30, 31, 32, 35}
                     /\ C17_Stored(call.spi) # {}
            /\ call.op = "write"
                  => /\ call.addr \in ReadWriteRegisterAddress
                     /\ C17_Stored(call.spi) = {call.addr}
            /\ op.name \in {"get_accel_vector", "read_who_am_i", "read_register"}
                  => /\ call.op \in {"read", "read_multiple"}
                     /\ C17_Stored(call.spi) = {}
                     /\ DeviceApply(regs, call.spi) = regs

\* the first write of Lis3dh::new has stored to 0x1E, 0x1F and 0x20
C17_Witness ==
    /\ op.name = "new"
    /\ pc = "block2"
    /\ Len(txlog) = 1
    /\ C17_Stored(txlog[1].spi) = {30, 31, 32}
    /\ regs[CtrlReg1] = render_as_bytes(cfg).ctrl_reg1
    /\ cfg.odr = "F100Hz"

\* C18: read_and_verify(address, expected) makes one single-byte read of
\* address, in one transaction; it returns Ok(true) exactly when the byte the
\* device holds there equals expected, Ok(false) otherwise, and Err with the
\* transport's error, never false, when the transport fails.
C18_ReadAndVerify ==
    op.name = "read_and_verify" =>
        /\ Len(txlog) = 1
        /\ txlog[1].op = "read"
        /\ txlog[1].len = 1
        /\ txlog[1].spi = <<SpiWrite(<<128 + txlog[1].addr>>), SpiRead(1)>>
        /\ Len(transport) = 1
        /\ transport[1].spi = txlog[1].spi
        /\ transport[1].outcome = "Ok"
              => /\ result.status \in {"Ok(true)", "Ok(false)"}
                 /\ result.status = "Ok(true)" <=> regs[txlog[1].addr] = op.expected
                 /\ result.error = None
        /\ transport[1].outcome # "Ok"
              => /\ result.status = "Err"
                 /\ result.error = <<transport[1].outcome>>

\* CTRL_REG1 was read and found different from the expected 7
C18_Witness ==
    /\ op.name = "read_and_verify"
    /\ op.expected = 7
    /\ txlog[1].addr = CtrlReg1
    /\ regs[CtrlReg1] = 223
    /\ result.status = "Ok(false)"

\* C19: read_who_am_i makes one single-byte read of WHO_AM_I (0x0F), in one
\* transaction, and returns the byte the device holds there, which is 0x33
\* under every configuration and after any call on the handle.
C19_ReadWhoAmI ==
    op.name = "read_who_am_i" =>
        /\ Len(txlog) = 1
        /\ CallOf(txlog[1]) = <<"read", 15, <<>> >>
        /\ txlog[1].spi = <<SpiWrite(<<143>>), SpiRead(1)>>
        /\ <<"ReadOnly", 15>> \in RegisterAddress
        /\ pc = "ready"
              => /\ Len(transport) = 1
                 /\ result.status = "Ok"
                       => (result.data = <<regs[15]>> /\ result.data = <<51>>)

\* WHO_AM_I read as 0x33 on a reconfigured handle that has made raw writes
C19_Witness ==
    /\ op.name = "read_who_am_i"
    /\ pc = "ready"
    /\ result.status = "Ok"
    /\ result.data = <<51>>
    /\ rawWritten
    /\ cfg.hr = "HighResolution"

C21_TableAddresses(t) == { row[3] : row \in { r \in RegisterTable : r[2] = t } }

\* C21: every register the table lists as rw, REFERENCE (0x26) among them, is
\* a ReadWriteRegisterAddress with the table's address, every register listed
\* as r is a ReadOnlyRegisterAddress with the table's address, and no address
\* is in both sets; so every address a single write can be sent to is one the
\* table lists as rw, and every rw address of the table can be written.
C21_TablePartition ==
    /\ C21_TableAddresses("rw") = ReadWriteRegisterAddress
    /\ C21_TableAddresses("r") = ReadOnlyRegisterAddress
    /\ ReadWriteRegisterAddress \cap ReadOnlyRegisterAddress = {}
    /\ \A i \in 1..Len(txlog) :
          txlog[i].op = "write" => txlog[i].addr \in C21_TableAddresses("rw")

\* the resolution the device works at, by its lp_en and hr bits; 0 where the
\* pair is not allowed
C22_DeviceResolution ==
    LET lp == Bit(regs[CtrlReg1], 3)
        h  == Bit(regs[CtrlReg4], 3)
    IN  CASE lp = 1 /\ h = 0 -> 8
          [] lp = 0 /\ h = 0 -> 10
          [] lp = 0 /\ h = 1 -> 12
          [] OTHER -> 0

\* C22: while a handle exists and no raw write was made, the resolution the
\* handle decodes with is the one the device's lp_en and hr bits imply, and a
\* vector it returns was decoded at that resolution; no call on a handle
\* starts while new or reconfigure is running or after either has failed, and
\* once failed no handle ever exists.
C22_HandleResolutionIsDeviceResolution ==
    /\ [](((pc \in {"ready", "await_call"}) /\ ~rawWritten)
             => /\ Resolution(cfg.lp_en, cfg.hr) = C22_DeviceResolution
                /\ (pc = "ready" /\ op.name = "get_accel_vector" /\ result.status = "Ok")
                      => result.data[1] = C16_Axis(regs[OutXL], regs[OutXH],
                                                   C22_DeviceResolution))
    /\ [][(pc \notin {"ready", "await_call"}) => (pc' # "await_call")]_vars
    /\ [][(pc = "failed") => (pc' = "failed")]_vars

\* a vector read at 8 bits from a device whose bits say low power, no high
\* resolution
C22_Witness ==
    /\ pc = "ready"
    /\ op.name = "get_accel_vector"
    /\ result.status = "Ok"
    /\ ~rawWritten
    /\ cfg.lp_en = "LowPowerMode"
    /\ C22_DeviceResolution = 8
    /\ regs[OutXH] = 15
    /\ result.data[1] = 15

\* C23: with new and reconfigure on legal configurations only, the device
\* never holds lp_en = 1 in CTRL_REG1 together with hr = 1 in CTRL_REG4, the
\* state between the two writes included.
C23_NeverLowPowerHighResOnDevice ==
    ~rawWritten => ~(Bit(regs[CtrlReg1], 3) = 1 /\ Bit(regs[CtrlReg4], 3) = 1)

\* C24: when the CTRL_REG4 write fails after the first block succeeded, the
\* call returns the error with both transactions made and nothing after them,
\* CTRL_REG0, TEMP_CFG_REG and CTRL_REG1 hold the new configuration's bytes and
\* CTRL_REG4 the value it had (it changes only in the step that completes the
\* call); a failing transaction changes no register; a call that succeeded has
\* applied all four bytes and one whose first write failed none.
C24_PartialOnlyOnSecondWriteFailure ==
    /\ []((pc = "failed" /\ Len(transport) = 2)
             => /\ Len(txlog) = 2
                /\ inflight = <<>>
                /\ transport[1].outcome = "Ok"
                /\ transport[2].outcome \in TransportErrors
                /\ result.status = "Err"
                /\ result.error = << <<"Bus", transport[2].outcome>> >>
                /\ regs[CtrlReg0] = render_as_bytes(cfg).ctrl_reg0
                /\ regs[TempCfgReg] = render_as_bytes(cfg).temp_cfg_reg
                /\ regs[CtrlReg1] = render_as_bytes(cfg).ctrl_reg1)
    /\ [][(op'.name \in {"new", "reconfigure"} /\ pc' # "ready")
             => regs'[CtrlReg4] = regs[CtrlReg4]]_vars
    /\ [][(pc' = "failed") => (regs' = regs /\ txlog' = txlog)]_vars
    /\ []((pc = "ready" /\ op.name \in {"new", "reconfigure"})
             => regs[CtrlReg4] = render_as_bytes(cfg).ctrl_reg4)

\* a reconfigure whose CTRL_REG4 write failed: CTRL_REG1 is the new one,
\* CTRL_REG4 still that of the configuration before
C24_Witness ==
    /\ pc = "failed"
    /\ op.name = "reconfigure"
    /\ ~rawWritten
    /\ Len(transport) = 2
    /\ cfg.odr = "F100Hz"
    /\ regs[CtrlReg1] = 87
    /\ regs[CtrlReg4] = 56

\* the legal configurations and the (ctrl_reg1, ctrl_reg4) pair of each
C25_Legal == { c \in Config : ValidLis3dhConfig(c) }
C25_Pairs == { <<c, render_as_bytes(c).ctrl_reg1, render_as_bytes(c).ctrl_reg4>> :
                  c \in C25_Legal }

\* C25: F1344Hz and F5376Hz are both rendered with the odr raw value 0b1001;
\* in a legal configuration the lp_en bit of the same byte is 0 for F1344Hz
\* and 1 for F5376Hz; and no other legal configuration renders to the
\* (ctrl_reg1, ctrl_reg4) pair of the one rendered.
C25_OverloadedCodeUnambiguous ==
    bytes # None =>
        LET b == bytes[1]
        IN  /\ cfg \in C25_Legal
            /\ cfg.odr \in {"F1344Hz", "F5376Hz"} <=> b.ctrl_reg1 \div 16 = 9
            /\ cfg.odr = "F1344Hz" => Bit(b.ctrl_reg1, 3) = 0
            /\ cfg.odr = "F5376Hz" => Bit(b.ctrl_reg1, 3) = 1
            /\ \A t \in C25_Pairs :
                  (t[2] = b.ctrl_reg1 /\ t[3] = b.ctrl_reg4) => t[1] = cfg

\* 5376 Hz reached the device as 0b1001 with lp_en = 1
C25_Witness ==
    /\ pc = "ready"
    /\ cfg.odr = "F5376Hz"
    /\ cfg.axis_enable = "XYZEnabled"
    /\ bytes[1].ctrl_reg1 = 159
    /\ regs[CtrlReg1] = 159

\* the raw values of an enum
C26_Raw(variants) == { variants[v] : v \in DOMAIN variants }

\* every field of the four registers: register, offset, width, raw values
C26_Fields ==
    { [name |-> "odr", reg |-> CtrlReg1, OFFSET |-> odr_OFFSET, WIDTH |-> odr_WIDTH,
       raw |-> C26_Raw(odr_Variant)],
      [name |-> "lp_en", reg |-> CtrlReg1, OFFSET |-> lp_en_OFFSET, WIDTH |-> lp_en_WIDTH,
       raw |-> C26_Raw(lp_en_Variant)],
      [name |-> "axis_enable", reg |-> CtrlReg1, OFFSET |-> axis_enable_OFFSET,
       WIDTH |-> axis_enable_WIDTH, raw |-> C26_Raw(axis_enable_Variant)],
      [name |-> "bdu", reg |-> CtrlReg4, OFFSET |-> bdu_OFFSET, WIDTH |-> bdu_WIDTH,
       raw |-> C26_Raw(bdu_Variant)],
      [name |-> "ble", reg |-> CtrlReg4, OFFSET |-> ble_OFFSET, WIDTH |-> ble_WIDTH,
       raw |-> C26_Raw(ble_Variant)],
      [name |-> "fs", reg |-> CtrlReg4, OFFSET |-> fs_OFFSET, WIDTH |-> fs_WIDTH,
       raw |-> C26_Raw(fs_Variant)],
      [name |-> "hr", reg |-> CtrlReg4, OFFSET |-> hr_OFFSET, WIDTH |-> hr_WIDTH,
       raw |-> C26_Raw(hr_Variant)],
      [name |-> "st", reg |-> CtrlReg4, OFFSET |-> st_OFFSET, WIDTH |-> st_WIDTH,
       raw |-> C26_Raw(st_Variant)],
      [name |-> "sim", reg |-> CtrlReg4, OFFSET |-> sim_OFFSET, WIDTH |-> sim_WIDTH,
       raw |-> C26_Raw(sim_Variant)],
      [name |-> "sdo_pu_disc", reg |-> CtrlReg0, OFFSET |-> sdo_pu_disc_OFFSET,
       WIDTH |-> sdo_pu_disc_WIDTH, raw |-> C26_Raw(sdo_pu_disc_Variant)],
      [name |-> "must_set_bits", reg |-> CtrlReg0, OFFSET |-> must_set_bits_OFFSET,
       WIDTH |-> must_set_bits_WIDTH, raw |-> C26_Raw(must_set_bits_Variant)],
      [name |-> "adc_en", reg |-> TempCfgReg, OFFSET |-> adc_en_OFFSET,
       WIDTH |-> adc_en_WIDTH, raw |-> C26_Raw(adc_en_Variant)],
      [name |-> "temp_en", reg |-> TempCfgReg, OFFSET |-> temp_en_OFFSET,
       WIDTH |-> temp_en_WIDTH, raw |-> C26_Raw(temp_en_Variant)] }

\* the bits a field occupies
C26_Range(f) == f.OFFSET..(f.OFFSET + f.WIDTH - 1)

\* C26: in CTRL_REG0, TEMP_CFG_REG, CTRL_REG1 and CTRL_REG4 every field lies
\* within bits 0..7, two fields of one register share no bit, and every raw
\* value is below 2^WIDTH; so in the rendered bytes each field reads back as
\* the raw value rendered for it, whatever the other fields of the byte are.
C26_FieldGeometry ==
    /\ \A f \in C26_Fields :
          /\ f.WIDTH >= 1
          /\ C26_Range(f) \subseteq 0..7
          /\ \A v \in f.raw : v >= 0 /\ v < Pow2(f.WIDTH)
    /\ \A f, g \in C26_Fields :
          (f.reg = g.reg /\ f.name # g.name) => C26_Range(f) \cap C26_Range(g) = {}
    /\ bytes # None =>
          LET b == bytes[1]
          IN  /\ ExtractField(b.ctrl_reg1, odr_OFFSET, odr_WIDTH)
                    = odr_Variant[odr_State[cfg.odr]]
              /\ ExtractField(b.ctrl_reg1, lp_en_OFFSET, lp_en_WIDTH)
                    = lp_en_Variant[cfg.lp_en]
              /\ ExtractField(b.ctrl_reg1, axis_enable_OFFSET, axis_enable_WIDTH)
                    = axis_enable_Variant[cfg.axis_enable]
              /\ ExtractField(b.ctrl_reg4, bdu_OFFSET, bdu_WIDTH) = bdu_Variant[bdu_Default]
              /\ ExtractField(b.ctrl_reg4, ble_OFFSET, ble_WIDTH) = ble_Variant[ble_Default]
              /\ ExtractField(b.ctrl_reg4, fs_OFFSET, fs_WIDTH) = fs_Variant[cfg.fs]
              /\ ExtractField(b.ctrl_reg4, hr_OFFSET, hr_WIDTH) = hr_Variant[cfg.hr]
              /\ ExtractField(b.ctrl_reg4, st_OFFSET, st_WIDTH) = st_Variant[st_Default]
              /\ ExtractField(b.ctrl_reg4, sim_OFFSET, sim_WIDTH) = sim_Variant[sim_Default]
              /\ ExtractField(b.ctrl_reg0, sdo_pu_disc_OFFSET, sdo_pu_disc_WIDTH)
                    = sdo_pu_disc_Variant[sdo_pu_disc_Default]
              /\ ExtractField(b.ctrl_reg0, must_set_bits_OFFSET, must_set_bits_WIDTH)
                    = must_set_bits_Variant[must_set_bits_Default]
              /\ ExtractField(b.ctrl_reg0, must_set_bits_OFFSET, 7) = 16
              /\ ExtractField(b.temp_cfg_reg, adc_en_OFFSET, adc_en_WIDTH)
                    = adc_en_Variant[adc_en_Default]
              /\ ExtractField(b.temp_cfg_reg, temp_en_OFFSET, temp_en_WIDTH)
                    = temp_en_Variant[temp_en_Default]

\* lp_en reads back 0 between a set odr bit and set axis bits, st reads back 0
\* next to a set hr bit
C26_Witness ==
    /\ pc = "ready"
    /\ cfg.odr = "F1344Hz"
    /\ cfg.axis_enable = "XYZEnabled"
    /\ cfg.fs = "S16G"
    /\ cfg.hr = "HighResolution"
    /\ bytes[1].ctrl_reg1 = 151
    /\ bytes[1].ctrl_reg4 = 56
    /\ ExtractField(bytes[1].ctrl_reg1, lp_en_OFFSET, lp_en_WIDTH) = 0
    /\ ExtractField(bytes[1].ctrl_reg4, st_OFFSET, st_WIDTH) = 0

====
